---------------------------- MODULE Spec2Model ----------------------------
(***************************************************************************)
(* Finit (PID 1) bootstrap: the synchronous boot phases of main(), the     *)
(* filesystem phase fs_init(), the two work items main() submits (crank    *)
(* and final), the bounded polling of final_worker() and the terminal      *)
(* phase finalize().  Modelled from src/src/finit.c.                       *)
(*                                                                         *)
(* Every call the program makes is appended to `trace` as <<op, arg>>, so  *)
(* that the order of phases, hooks and commands can be stated.             *)
(***************************************************************************)
EXTENDS Integers, Sequences, FiniteSets, TLC

VARIABLES
    pc,         \* position of main(): the name of the next call
    rescue,     \* int rescue: rescue mode from the kernel command line
    pass,       \* fsck_all: loop variable
    fsckerr,    \* fs_init: result of fsck_all()
    passes,     \* history: <<pass, rc>> of every fsck(pass) call, in order
    trace,      \* history: every call made so far, in program order
    condReady,  \* condition store initialised by cond_init()
    conds,      \* one-shot conditions that are set
    pending,    \* work items submitted to the reactor: [wq, due]
    now,        \* reactor clock in ms
    cnt,        \* final_worker: static int cnt
    budget,     \* history: the initial value of cnt
    polls,      \* history: number of invocations of final_worker
    scCalls,    \* history: number of calls of service_completed()
    scTrueAt,   \* history: poll at which service_completed() first returned true, 0 if none
    finalized,  \* history: number of invocations of finalize()
    gateAt,     \* history: clock when main submitted the final work item, -1 before
    finIn,      \* history: <<rp, rcl>> that the last finalize() found on disk
    rootIn      \* history: what fs_remount_root() found in fstab, "unread" before

vars == <<pc, rescue, pass, fsckerr, passes, trace, condReady, conds, pending,
          now, cnt, budget, polls, scCalls, scTrueAt, finalized, gateAt, finIn, rootIn>>

(***************************************************************************)
(* Bounds of the model and constants of the program.                       *)
(***************************************************************************)
\* Largest number of failed checks one fsck(pass) call sums up.
MaxFsckFail == 1
\* Largest attempt budget explored besides the build's.
MaxBudget == 3

\* static int cnt = 120
CNT_INIT == 120
\* struct wq final = { .delay = 1000 }
FINAL_DELAY == 1000
\* Mutant: the crank item is given the delay of the final item.
CRANK_DELAY_AsFinal == FINAL_DELAY

\* struct wq crank = { .cb = crank_worker }: no delay
CRANK_DELAY == 0
\* for (pass = 1; pass < 10; pass++)
PASS_FIRST == 1
PASS_LIMIT == 10

Budgets == (0 .. MaxBudget) \cup {CNT_INIT}

\* Hook points, in the names the specification gives them.
HOOK_BANNER == "banner"
HOOK_ROOTFS_UP == "rootfs-up"
HOOK_MOUNT_ERROR == "mount-error"
HOOK_MOUNT_POST == "mount-post"
HOOK_BASEFS_UP == "basefs-up"
HOOK_SVC_UP == "services-up"
HOOK_SYSTEM_UP == "system-up"

Ev(op, arg) == <<op, arg>>

\* plugin_run_hooks(h): the registered callbacks are opaque; the firing is recorded.
plugin_run_hooks(h) == Ev("hook", h)

\* plugin_hook_str(h): the condition name of a hook point.
plugin_hook_str(h) == "hook/" \o h

\* cond_set_oneshot(name) on the store `c`.
cond_set_oneshot(c, name) == c \cup {name}

\* schedule_work(w): the item is queued on the reactor, due after its delay.
schedule_work(q, w, delay, t) == q \cup {[wq |-> w, due |-> t + delay]}

(***************************************************************************)
(* State after the PID check of main(): nothing has run.  `B` is the set   *)
(* of values the attempt budget (the initial cnt) is drawn from.           *)
(***************************************************************************)
InitWith(B) ==
    /\ pc = "conf_parse_cmdline"
    /\ rescue = FALSE
    /\ pass = 0
    /\ fsckerr = 0
    /\ passes = <<>>
    /\ trace = <<>>
    /\ condReady = FALSE
    /\ conds = {}
    /\ pending = {}
    /\ now = 0
    /\ budget \in B
    /\ cnt = budget
    /\ polls = 0
    /\ scCalls = 0
    /\ scTrueAt = 0
    /\ finalized = 0
    /\ gateAt = -1
    /\ finIn = <<"", FALSE>>
    /\ rootIn = "unread"

\* The build: static int cnt = 120.
Init == InitWith({CNT_INIT})

\* The gate with any attempt budget.
AnyBudgetInit == InitWith(Budgets)

\* One synchronous call of main() that changes nothing but the position.
Call(from, to, evs) ==
    /\ pc = from
    /\ pc' = to
    /\ trace' = trace \o evs
    /\ UNCHANGED <<rescue, pass, fsckerr, passes, condReady, conds, pending,
                   now, cnt, budget, polls, scCalls, scTrueAt, finalized, gateAt, finIn, rootIn>>

\* conf_parse_cmdline(): the kernel command line decides rescue mode.
main_conf_parse_cmdline ==
    /\ pc = "conf_parse_cmdline"
    /\ \E r \in BOOLEAN : rescue' = r
    /\ pc' = "uev_init1"
    /\ trace' = Append(trace, Ev("conf_parse_cmdline", ""))
    /\ UNCHANGED <<pass, fsckerr, passes, condReady, conds, pending,
                   now, cnt, budget, polls, scCalls, scTrueAt, finalized, gateAt, finIn, rootIn>>

main_uev_init1 == Call("uev_init1", "setenv", <<Ev("uev_init1", "")>>)

\* setenv PATH and SHELL, chdir("/"), umask(0)
main_setenv == Call("setenv", "screen_init", <<Ev("setenv", "")>>)

\* if (!rescue && !log_is_debug()) screen_init(): it writes to the console
\* only, which is no part of the state.
screen_init(resc, debug) == <<>>

main_screen_init ==
    \E debug \in BOOLEAN :
        Call("screen_init", "emergency_shell", screen_init(rescue, debug))

\* emergency_shell(): empty unless built with EMERGENCY_SHELL.
main_emergency_shell == Call("emergency_shell", "plugin_init", <<Ev("emergency_shell", "")>>)

main_plugin_init == Call("plugin_init", "banner", <<Ev("plugin_init", "")>>)

\* banner(): the hook, then the heading unless the log is silent; the
\* heading goes to the console only.
banner(silent) == <<plugin_run_hooks(HOOK_BANNER)>>

main_banner == \E silent \in BOOLEAN : Call("banner", "sig_init", banner(silent))

main_sig_init == Call("sig_init", "cgroup_init", <<Ev("sig_init", "")>>)

main_cgroup_init == Call("cgroup_init", "fs_init", <<Ev("cgroup_init", "")>>)

(***************************************************************************)
(* fs_init(): check and mount filesystems.                                 *)
(***************************************************************************)
\* fsck(pass): 1 when fstab cannot be opened, else the sum of the results of
\* the checks run for the entries of this pass.
fsck(opened, fails) == IF ~opened THEN 1 ELSE fails

\* Mutant: the loop of fsck_all without its break.
fsck_all_break_never(rc) == FALSE

\* fsck_all: if (rc) break;
fsck_all_break(rc) == rc # 0

\* if (!rescue) { fsckerr = fsck_all(); fs_remount_root(fsckerr); }
\* Mutant: fs_init that checks the file systems in rescue mode too.
fs_init_enter_ignores_rescue ==
    /\ pc = "fs_init"
    /\ pc' = "fsck_all"
    /\ pass' = PASS_FIRST
    /\ trace' = Append(trace, Ev("fs_init", ""))
    /\ UNCHANGED <<rescue, fsckerr, passes, condReady, conds, pending,
                   now, cnt, budget, polls, scCalls, scTrueAt, finalized, gateAt, finIn, rootIn>>

fs_init_enter ==
    /\ pc = "fs_init"
    /\ pc' = IF rescue THEN "rootfs_up" ELSE "fsck_all"
    /\ pass' = IF rescue THEN pass ELSE PASS_FIRST
    /\ trace' = Append(trace, Ev("fs_init", ""))
    /\ UNCHANGED <<rescue, fsckerr, passes, condReady, conds, pending,
                   now, cnt, budget, polls, scCalls, scTrueAt, finalized, gateAt, finIn, rootIn>>

\* One iteration of the loop of fsck_all; leaving the loop returns rc to
\* fs_init, which stores it in fsckerr.
fsck_all ==
    /\ pc = "fsck_all"
    /\ pass < PASS_LIMIT
    /\ \E opened \in BOOLEAN, fails \in 0 .. MaxFsckFail :
        LET rc == fsck(opened, fails) IN
        /\ passes' = Append(passes, <<pass, rc>>)
        /\ trace' = Append(trace, Ev("fsck", "pass"))
        /\ fsckerr' = rc
        /\ IF fsck_all_break(rc)
           THEN /\ pass' = pass
                /\ pc' = "fs_remount_root"
           ELSE /\ pass' = pass + 1
                /\ pc' = IF pass + 1 < PASS_LIMIT THEN "fsck_all" ELSE "fs_remount_root"
    /\ UNCHANGED <<rescue, condReady, conds, pending,
                   now, cnt, budget, polls, scCalls, scTrueAt, finalized, gateAt, finIn, rootIn>>

\* Mutant: fs_remount_root() that remounts a root listed as 'ro' as well.
fs_remount_root_calls_ignores_ro(opened, root, err) ==
    IF ~opened THEN <<>>
    ELSE IF root = "none" THEN <<>>
    ELSE IF err # 0 THEN <<Ev("print", "Cannot remount / as read-write, fsck failed before")>>
    ELSE <<Ev("run_interactive", "mount -n -o remount,rw /")>>

\* fs_remount_root(fsckerr): `opened` is setfsent(), `root` the fstab entry of
\* "/": "none" when not listed, else its fs_type "ro" or "rw".
fs_remount_root_calls(opened, root, err) ==
    IF ~opened THEN <<>>
    ELSE IF root = "none" \/ root = "ro" THEN <<>>
    ELSE IF err # 0 THEN <<Ev("print", "Cannot remount / as read-write, fsck failed before")>>
    ELSE <<Ev("run_interactive", "mount -n -o remount,rw /")>>

\* What the call found: "unopened" when setfsent() failed, else the entry of "/".
fs_remount_root_found(opened, root) == IF ~opened THEN "unopened" ELSE root

fs_remount_root ==
    /\ pc = "fs_remount_root"
    /\ pc' = "rootfs_up"
    /\ \E opened \in BOOLEAN, root \in {"none", "ro", "rw"} :
        /\ trace' = trace \o fs_remount_root_calls(opened, root, fsckerr)
        /\ rootIn' = fs_remount_root_found(opened, root)
    /\ UNCHANGED <<rescue, pass, fsckerr, passes, condReady, conds, pending,
                   now, cnt, budget, polls, scCalls, scTrueAt, finalized, gateAt, finIn>>

fs_init_rootfs_up == Call("rootfs_up", "mount_all", <<plugin_run_hooks(HOOK_ROOTFS_UP)>>)

\* if (run_interactive("mount -na", ...)) plugin_run_hooks(HOOK_MOUNT_ERROR);
\* Mutant: a failed mount fires the mount-post hook instead of mount-error.
fs_init_mount_calls_wronghook(rc) ==
    <<Ev("mount -na", IF rc # 0 THEN "failed" ELSE "ok")>> \o
    (IF rc # 0 THEN <<plugin_run_hooks(HOOK_MOUNT_POST)>> ELSE <<>>)

\* Mutant: the mount-error hook is fired when mount -na succeeds.
fs_init_mount_calls_onsuccess(rc) ==
    <<Ev("mount -na", IF rc # 0 THEN "failed" ELSE "ok")>> \o
    (IF rc = 0 THEN <<plugin_run_hooks(HOOK_MOUNT_ERROR)>> ELSE <<>>)

\* Mutant: the result of mount -na is ignored.
fs_init_mount_calls_nohook(rc) ==
    <<Ev("mount -na", IF rc # 0 THEN "failed" ELSE "ok")>>

\* The command is recorded with its result.
fs_init_mount_calls(rc) ==
    <<Ev("mount -na", IF rc # 0 THEN "failed" ELSE "ok")>> \o
    (IF rc # 0 THEN <<plugin_run_hooks(HOOK_MOUNT_ERROR)>> ELSE <<>>)

fs_init_mount_all ==
    \E rc \in 0 .. 1 : Call("mount_all", "mount_post", fs_init_mount_calls(rc))

fs_init_mount_post == Call("mount_post", "swapon", <<plugin_run_hooks(HOOK_MOUNT_POST)>>)

\* run("swapon -ea"); umask(0022);
fs_init_swapon == Call("swapon", "conf_init", <<Ev("run", "swapon -ea"), Ev("umask", "0022")>>)

(***************************************************************************)
(* main(), after the filesystem phase.                                     *)
(***************************************************************************)
main_conf_init == Call("conf_init", "cond_init", <<Ev("conf_init", "")>>)

\* cond_init(): the condition store exists from here on, with nothing set.
main_cond_init ==
    /\ pc = "cond_init"
    /\ pc' = "cond_set_banner"
    /\ condReady' = TRUE
    /\ conds' = {}
    /\ trace' = Append(trace, Ev("cond_init", ""))
    /\ UNCHANGED <<rescue, pass, fsckerr, passes, pending,
                   now, cnt, budget, polls, scCalls, scTrueAt, finalized, gateAt, finIn, rootIn>>

\* cond_set_oneshot(plugin_hook_str(HOOK_BANNER));
main_cond_set_banner ==
    /\ pc = "cond_set_banner"
    /\ pc' = "cond_set_rootfs_up"
    /\ conds' = cond_set_oneshot(conds, plugin_hook_str(HOOK_BANNER))
    /\ trace' = Append(trace, Ev("cond_set_oneshot", plugin_hook_str(HOOK_BANNER)))
    /\ UNCHANGED <<rescue, pass, fsckerr, passes, condReady, pending,
                   now, cnt, budget, polls, scCalls, scTrueAt, finalized, gateAt, finIn, rootIn>>

\* Mutant: main() without the one-shot condition of rootfs-up.
main_cond_set_rootfs_up_missing == Call("cond_set_rootfs_up", "sig_setup", <<>>)

\* cond_set_oneshot(plugin_hook_str(HOOK_ROOTFS_UP));
main_cond_set_rootfs_up ==
    /\ pc = "cond_set_rootfs_up"
    /\ pc' = "sig_setup"
    /\ conds' = cond_set_oneshot(conds, plugin_hook_str(HOOK_ROOTFS_UP))
    /\ trace' = Append(trace, Ev("cond_set_oneshot", plugin_hook_str(HOOK_ROOTFS_UP)))
    /\ UNCHANGED <<rescue, pass, fsckerr, passes, condReady, pending,
                   now, cnt, budget, polls, scCalls, scTrueAt, finalized, gateAt, finIn, rootIn>>

main_sig_setup == Call("sig_setup", "basefs_up", <<Ev("sig_setup", "")>>)

main_basefs_up == Call("basefs_up", "conf_monitor", <<plugin_run_hooks(HOOK_BASEFS_UP)>>)

\* Mutant: main() that submits the work items without starting the API.
main_conf_monitor_skips_api == Call("conf_monitor", "schedule_crank", <<Ev("conf_monitor", "")>>)

\* conf_monitor(&loop);
main_conf_monitor == Call("conf_monitor", "api_init", <<Ev("conf_monitor", "")>>)

\* api_init(&loop); umask(022);
main_api_init == Call("api_init", "schedule_crank", <<Ev("api_init", ""), Ev("umask", "022")>>)

\* schedule_work(&crank);
main_schedule_crank ==
    /\ pc = "schedule_crank"
    /\ pc' = "schedule_final"
    /\ pending' = schedule_work(pending, "crank", CRANK_DELAY, now)
    /\ trace' = Append(trace, Ev("schedule_work", "crank"))
    /\ UNCHANGED <<rescue, pass, fsckerr, passes, condReady, conds,
                   now, cnt, budget, polls, scCalls, scTrueAt, finalized, gateAt, finIn, rootIn>>

\* schedule_work(&final);
main_schedule_final ==
    /\ pc = "schedule_final"
    /\ pc' = "uev_run"
    /\ pending' = schedule_work(pending, "final", FINAL_DELAY, now)
    /\ gateAt' = now
    /\ trace' = Append(trace, Ev("schedule_work", "final"))
    /\ UNCHANGED <<rescue, pass, fsckerr, passes, condReady, conds,
                   now, cnt, budget, polls, scCalls, scTrueAt, finalized, finIn, rootIn>>

\* return uev_run(&loop, 0): main() stays in the reactor from here on.
main_uev_run == Call("uev_run", "reactor", <<Ev("uev_run", "")>>)

(***************************************************************************)
(* The reactor and the two work items.                                     *)
(***************************************************************************)
\* The reactor runs the pending item whose timer expires first.
Earliest(it) == \A o \in pending : it.due <= o.due

Max(a, b) == IF a >= b THEN a ELSE b

\* crank_worker(): sm_init(&sm); sm_step(&sm);
crank_worker ==
    /\ pc = "reactor"
    /\ \E it \in pending :
        /\ it.wq = "crank"
        /\ Earliest(it)
        /\ pending' = pending \ {it}
        /\ now' = Max(now, it.due)
    /\ trace' = trace \o <<Ev("sm_init", ""), Ev("sm_step", "")>>
    /\ UNCHANGED <<pc, rescue, pass, fsckerr, passes, condReady, conds,
                   cnt, budget, polls, scCalls, scTrueAt, finalized, gateAt, finIn, rootIn>>

\* Mutant: finalize() whose check of FINIT_RC_LOCAL forgets rescue mode.
finalize_norescue(rp, rcl, resc) ==
    <<Ev("finalize", "")>> \o
    (IF rp = "dir" /\ ~resc THEN <<Ev("run_parts", "runparts")>> ELSE <<>>) \o
    <<Ev("service_runlevel", "cfglevel"),
      Ev("svc_prune_bootstrap", ""),
      plugin_run_hooks(HOOK_SVC_UP),
      Ev("service_step_all", "finalize")>> \o
    (IF rcl THEN <<Ev("run_interactive", "FINIT_RC_LOCAL")>> ELSE <<>>) \o
    <<plugin_run_hooks(HOOK_SYSTEM_UP),
      Ev("service_step_all", "finalize"),
      Ev("log_silent", ""),
      Ev("tty_runlevel", "")>>

\* Mutant: finalize() that prunes the bootstrap-only services before it
\* starts the configured runlevel.
finalize_prune_first(rp, rcl, resc) ==
    <<Ev("finalize", "")>> \o
    (IF rp = "dir" /\ ~resc THEN <<Ev("run_parts", "runparts")>> ELSE <<>>) \o
    <<Ev("svc_prune_bootstrap", ""),
      Ev("service_runlevel", "cfglevel"),
      plugin_run_hooks(HOOK_SVC_UP),
      Ev("service_step_all", "finalize")>> \o
    (IF rcl /\ ~resc THEN <<Ev("run_interactive", "FINIT_RC_LOCAL")>> ELSE <<>>) \o
    <<plugin_run_hooks(HOOK_SYSTEM_UP),
      Ev("service_step_all", "finalize"),
      Ev("log_silent", ""),
      Ev("tty_runlevel", "")>>

\* finalize(): `rp` is runparts ("null" when unset, "nodir" when set but not
\* a directory, "dir" when a directory), `rcl` is !access(FINIT_RC_LOCAL, X_OK).
finalize(rp, rcl, resc) ==
    <<Ev("finalize", "")>> \o
    (IF rp = "dir" /\ ~resc THEN <<Ev("run_parts", "runparts")>> ELSE <<>>) \o
    <<Ev("service_runlevel", "cfglevel"),
      Ev("svc_prune_bootstrap", ""),
      plugin_run_hooks(HOOK_SVC_UP),
      Ev("service_step_all", "finalize")>> \o
    (IF rcl /\ ~resc THEN <<Ev("run_interactive", "FINIT_RC_LOCAL")>> ELSE <<>>) \o
    <<plugin_run_hooks(HOOK_SYSTEM_UP),
      Ev("service_step_all", "finalize"),
      Ev("log_silent", ""),
      Ev("tty_runlevel", "")>>

\* Mutant: the predicate's negation is lost.
final_worker_retry_inverted(c, done) == c > 0 /\ done

\* if (cnt-- > 0 && !service_completed()): `c` is cnt before the decrement;
\* service_completed() is called only when c > 0.
final_worker_retry(c, done) == c > 0 /\ ~done

\* Mutant: the retry branch forgets schedule_work(work).
final_worker_resubmits_never(retry) == FALSE

\* Mutant: final_worker that submits itself again on every invocation.
final_worker_resubmits_always(retry) == TRUE

\* schedule_work(work) is called in the retry branch only.
final_worker_resubmits(retry) == retry

\* Mutant: the retry branch forgets its return.
final_worker_finalizes_always(retry) == TRUE

\* The retry branch returns; finalize() is reached only past it.
final_worker_finalizes(retry) == ~retry

\* if (cnt > 0) "All run/task have completed" else "Timeout": `c` is cnt
\* after the decrement.
final_worker_message(c) ==
    IF c > 0 THEN "All run/task have completed, resuming bootstrap."
    ELSE "Timeout, resuming bootstrap."

final_worker ==
    /\ pc = "reactor"
    /\ \E it \in pending, done \in BOOLEAN, rp \in {"null", "nodir", "dir"}, rcl \in BOOLEAN :
        LET retry == final_worker_retry(cnt, done)
            poll == polls + 1
            t == Max(now, it.due)
        IN
        /\ it.wq = "final"
        /\ Earliest(it)
        /\ now' = t
        /\ polls' = poll
        /\ cnt' = cnt - 1
        /\ scCalls' = IF cnt > 0 THEN scCalls + 1 ELSE scCalls
        /\ scTrueAt' = IF cnt > 0 /\ done /\ scTrueAt = 0 THEN poll ELSE scTrueAt
        /\ pending' = IF final_worker_resubmits(retry)
                      THEN schedule_work(pending \ {it}, "final", FINAL_DELAY, t)
                      ELSE pending \ {it}
        /\ finalized' = IF final_worker_finalizes(retry) THEN finalized + 1 ELSE finalized
        /\ trace' = trace \o <<Ev("service_step_all", "final_worker")>> \o
                    (IF final_worker_finalizes(retry)
                     THEN <<Ev("_d", final_worker_message(cnt - 1))>> \o finalize(rp, rcl, rescue)
                     ELSE <<>>)
        /\ finIn' = IF final_worker_finalizes(retry) THEN <<rp, rcl>> ELSE finIn
    /\ UNCHANGED <<pc, rescue, pass, fsckerr, passes, condReady, conds, budget, gateAt, rootIn>>

main ==
    \/ main_conf_parse_cmdline
    \/ main_uev_init1
    \/ main_setenv
    \/ main_screen_init
    \/ main_emergency_shell
    \/ main_plugin_init
    \/ main_banner
    \/ main_sig_init
    \/ main_cgroup_init
    \/ fs_init_enter
    \/ fsck_all
    \/ fs_remount_root
    \/ fs_init_rootfs_up
    \/ fs_init_mount_all
    \/ fs_init_mount_post
    \/ fs_init_swapon
    \/ main_conf_init
    \/ main_cond_init
    \/ main_cond_set_banner
    \/ main_cond_set_rootfs_up
    \/ main_sig_setup
    \/ main_basefs_up
    \/ main_conf_monitor
    \/ main_api_init
    \/ main_schedule_crank
    \/ main_schedule_final
    \/ main_uev_run

Next ==
    \/ main
    \/ crank_worker
    \/ final_worker

Spec == Init /\ [][Next]_vars

\* The same program with cnt initialised to any budget of Budgets.
AnyBudgetSpec == AnyBudgetInit /\ [][Next]_vars

\* The reactor runs every submitted work item, and main() runs on to uev_run().
LiveSpec ==
    /\ Spec
    /\ WF_vars(main)
    /\ WF_vars(crank_worker)
    /\ WF_vars(final_worker)

(***************************************************************************)
(* Reading the trace.                                                      *)
(***************************************************************************)
At(ev) == {i \in DOMAIN trace : trace[i] = ev}

Count(ev) == Cardinality(At(ev))

Occurs(ev) == At(ev) # {}

\* Every occurrence of `a` lies before every occurrence of `b`.
Precedes(a, b) == \A i \in At(a), j \in At(b) : i < j

PollEv == Ev("service_step_all", "final_worker")

FinalizeEv == Ev("finalize", "")

GatePending == \E it \in pending : it.wq = "final"

SetMax(S) == CHOOSE m \in S : \A o \in S : o <= m

(***************************************************************************)
(* C1: once main() has submitted the final work item, finalize() is        *)
(* eventually invoked, whatever service_completed() returns, given that    *)
(* the reactor keeps running the items submitted to it.                    *)
(***************************************************************************)
C1_FinalizeReached == (gateAt >= 0) ~> (finalized >= 1)

\* finalize() reached although service_completed() never returned true.
C1_Witness ==
    /\ gateAt >= 0
    /\ finalized = 1
    /\ scTrueAt = 0
    /\ scCalls = CNT_INIT

(***************************************************************************)
(* C2 as claimed: when service_completed() never returns true, the gate    *)
(* runs exactly N polls (N the initial cnt): finalize() is invoked on the  *)
(* N-th invocation of final_worker and there is no (N+1)-th.               *)
(***************************************************************************)
C2_ExactlyNPolls ==
    scTrueAt = 0 =>
        /\ polls <= budget
        /\ finalized >= 1 => polls = budget

(***************************************************************************)
(* C3: if service_completed() is false on polls 1..k-1 and true on poll k  *)
(* (1 <= k <= N), final_worker is invoked exactly k times, finalize() runs *)
(* inside the k-th invocation right after that poll's step and check, and  *)
(* the gate is neither resubmitted nor polled again.                       *)
(***************************************************************************)
C3_StopsAtPollK ==
    scTrueAt # 0 =>
        /\ scTrueAt \in 1 .. budget
        /\ polls = scTrueAt
        /\ scCalls = scTrueAt
        /\ Count(PollEv) = scTrueAt
        /\ finalized = 1
        /\ ~GatePending
        /\ Count(FinalizeEv) = 1
        /\ LET last == SetMax(At(PollEv)) IN
            /\ last + 2 \in At(FinalizeEv)
            /\ trace[last + 1][1] = "_d"

\* The predicate turned true on the last poll the budget allows: false on
\* polls 1..N-1, true on poll N, for the largest small budget.
C3_Witness ==
    /\ budget = MaxBudget
    /\ budget >= 2
    /\ scTrueAt = budget
    /\ finalized = 1
    /\ polls = budget

(***************************************************************************)
(* C4: finalize() is executed at most once, whatever service_completed()   *)
(* returns.                                                                *)
(***************************************************************************)
C4_FinalizeAtMostOnce ==
    /\ finalized <= 1
    /\ Count(FinalizeEv) = finalized
    /\ Count(Ev("service_runlevel", "cfglevel")) <= 1
    /\ Count(Ev("tty_runlevel", "")) <= 1

\* finalize() has run after several polls and the reactor is idle.
C4_Witness ==
    /\ finalized = 1
    /\ polls >= 2
    /\ pending = {}

(***************************************************************************)
(* finalize() entered again after it has run: final_worker() is the only   *)
(* caller and calls it once, so the second entry is made by a driver that  *)
(* calls finalize() as final_worker() does.                                *)
(***************************************************************************)
\* Largest number of times finalize() is entered.
MaxFinalizeCalls == 2

finalize_again ==
    /\ pc = "reactor"
    /\ finalized >= 1
    /\ finalized < MaxFinalizeCalls
    /\ \E rp \in {"null", "nodir", "dir"}, rcl \in BOOLEAN :
        /\ trace' = trace \o finalize(rp, rcl, rescue)
        /\ finIn' = <<rp, rcl>>
    /\ finalized' = finalized + 1
    /\ UNCHANGED <<pc, rescue, pass, fsckerr, passes, condReady, conds, pending,
                   now, cnt, budget, polls, scCalls, scTrueAt, gateAt, rootIn>>

ReentryNext ==
    \/ Next
    \/ finalize_again

ReentrySpec == Init /\ [][ReentryNext]_vars

(***************************************************************************)
(* C5 as claimed: a second entry of finalize() is rejected: none of its    *)
(* effects (run-parts, service_runlevel, svc_prune_bootstrap, the          *)
(* services-up and system-up hooks, tty_runlevel) is executed a second     *)
(* time.                                                                   *)
(***************************************************************************)
C5_ReentryRejected ==
    /\ Count(Ev("run_parts", "runparts")) <= 1
    /\ Count(Ev("service_runlevel", "cfglevel")) <= 1
    /\ Count(Ev("svc_prune_bootstrap", "")) <= 1
    /\ Count(plugin_run_hooks(HOOK_SVC_UP)) <= 1
    /\ Count(plugin_run_hooks(HOOK_SYSTEM_UP)) <= 1
    /\ Count(Ev("tty_runlevel", "")) <= 1

(***************************************************************************)
(* C6: hook points fire in the order banner, rootfs-up, mount-error (if    *)
(* fired), mount-post, basefs-up, services-up, system-up; each at most     *)
(* once and none before an earlier one.                                    *)
(***************************************************************************)
HookOrder ==
    <<HOOK_BANNER, HOOK_ROOTFS_UP, HOOK_MOUNT_ERROR, HOOK_MOUNT_POST,
      HOOK_BASEFS_UP, HOOK_SVC_UP, HOOK_SYSTEM_UP>>

HookRank(h) == CHOOSE r \in DOMAIN HookOrder : HookOrder[r] = h

IsHook(e) == e[1] = "hook"

Fired == SelectSeq(trace, IsHook)

C6_HookOrder ==
    LET f == Fired IN
    /\ \A i \in DOMAIN f : \E r \in DOMAIN HookOrder : HookOrder[r] = f[i][2]
    /\ \A i, j \in DOMAIN f : i < j => HookRank(f[i][2]) < HookRank(f[j][2])

\* All seven hook points fired, after a failed check and several polls.
C6_Witness ==
    /\ Len(Fired) = Len(HookOrder)
    /\ ~rescue
    /\ fsckerr # 0
    /\ polls >= 2

(***************************************************************************)
(* C7: the banner and rootfs-up hooks fire before cond_init(); between     *)
(* cond_init() and the basefs-up hook their one-shot conditions are set,   *)
(* and stay set, without either hook firing a second time.                 *)
(***************************************************************************)
EarlyConds == {plugin_hook_str(HOOK_BANNER), plugin_hook_str(HOOK_ROOTFS_UP)}

C7_EarlyHooksReplayed ==
    /\ Occurs(Ev("cond_init", "")) =>
        /\ Count(plugin_run_hooks(HOOK_BANNER)) = 1
        /\ Count(plugin_run_hooks(HOOK_ROOTFS_UP)) = 1
        /\ Precedes(plugin_run_hooks(HOOK_BANNER), Ev("cond_init", ""))
        /\ Precedes(plugin_run_hooks(HOOK_ROOTFS_UP), Ev("cond_init", ""))
    /\ ~condReady => conds = {}
    /\ Occurs(plugin_run_hooks(HOOK_BASEFS_UP)) =>
        /\ condReady
        /\ EarlyConds \subseteq conds
        /\ \A c \in EarlyConds :
            /\ Occurs(Ev("cond_set_oneshot", c))
            /\ Precedes(Ev("cond_init", ""), Ev("cond_set_oneshot", c))
            /\ Precedes(Ev("cond_set_oneshot", c), plugin_run_hooks(HOOK_BASEFS_UP))

\* basefs-up has fired with both conditions set.
C7_Witness ==
    /\ Occurs(plugin_run_hooks(HOOK_BASEFS_UP))
    /\ EarlyConds \subseteq conds
    /\ Cardinality(EarlyConds) = 2
    /\ pc = "conf_monitor"

(***************************************************************************)
(* C8: check passes run in ascending order from 1 and stop at the first    *)
(* pass that reports failures, which fsck_all returns; when pass 1 fails,  *)
(* pass 2 is not run, the root remount read-write is not attempted, and    *)
(* mount -na is still executed.                                            *)
(***************************************************************************)
RemountEv == Ev("run_interactive", "mount -n -o remount,rw /")

MountRan == Occurs(Ev("mount -na", "ok")) \/ Occurs(Ev("mount -na", "failed"))

\* Positions of main() up to and including the call of mount -na.
BeforeMount ==
    {"conf_parse_cmdline", "uev_init1", "setenv", "screen_init", "emergency_shell",
     "plugin_init", "banner", "sig_init", "cgroup_init", "fs_init", "fsck_all",
     "fs_remount_root", "rootfs_up", "mount_all"}

C8_FsckStopsAtFirstFailure ==
    /\ Len(passes) < PASS_LIMIT
    /\ Count(Ev("fsck", "pass")) = Len(passes)
    /\ \A i \in DOMAIN passes :
        /\ passes[i][1] = i
        /\ i < Len(passes) => passes[i][2] = 0
    /\ (pc # "fsck_all" /\ passes # <<>>) =>
        /\ fsckerr = passes[Len(passes)][2]
        /\ fsckerr = 0 => Len(passes) = PASS_LIMIT - 1
    /\ (\E i \in DOMAIN passes : passes[i][2] # 0) => ~Occurs(RemountEv)
    /\ (passes # <<>> /\ passes[1][2] # 0) =>
        /\ Len(passes) = 1
        /\ ~Occurs(RemountEv)
        /\ pc \notin BeforeMount => MountRan

\* Pass 1 failed and the boot went on past the filesystem phase.
C8_Witness ==
    /\ passes = <<<<1, 1>>>>
    /\ MountRan
    /\ Occurs(Ev("print", "Cannot remount / as read-write, fsck failed before"))
    /\ pc = "reactor"

(***************************************************************************)
(* C9: in rescue mode finalize() runs neither the run-parts directory nor  *)
(* FINIT_RC_LOCAL, whatever is configured and present on disk; all its     *)
(* other steps still run.                                                  *)
(***************************************************************************)
\* The calls made from the entry of finalize() on.
SinceFinalize ==
    LET at == At(FinalizeEv) IN
    IF at = {} THEN <<>> ELSE SubSeq(trace, SetMax(at), Len(trace))

FinalizeRescue ==
    <<Ev("finalize", ""),
      Ev("service_runlevel", "cfglevel"),
      Ev("svc_prune_bootstrap", ""),
      plugin_run_hooks(HOOK_SVC_UP),
      Ev("service_step_all", "finalize"),
      plugin_run_hooks(HOOK_SYSTEM_UP),
      Ev("service_step_all", "finalize"),
      Ev("log_silent", ""),
      Ev("tty_runlevel", "")>>

C9_RescueSkipsScripts ==
    (rescue /\ finalized >= 1) =>
        /\ ~Occurs(Ev("run_parts", "runparts"))
        /\ ~Occurs(Ev("run_interactive", "FINIT_RC_LOCAL"))
        /\ SinceFinalize = FinalizeRescue

\* Rescue mode, with a run-parts directory and an executable script on disk.
C9_Witness ==
    /\ rescue
    /\ finalized = 1
    /\ finIn = <<"dir", TRUE>>

(***************************************************************************)
(* C10 as claimed: from the submission of the final work item in main()    *)
(* until finalize() is invoked, at most N poll intervals elapse (N the     *)
(* initial cnt), also when service_completed() never returns true.         *)
(***************************************************************************)
C10_WaitAtMostBudget ==
    finalized >= 1 =>
        /\ now - gateAt <= budget * FINAL_DELAY
        /\ polls <= budget

(***************************************************************************)
(* C11 as claimed: final_worker reports "All run/task have completed"      *)
(* exactly when it reaches finalize() because service_completed() returned *)
(* true on that poll, and "Timeout" exactly when the budget was exhausted, *)
(* for every poll k in 1..N at which the predicate first becomes true.     *)
(***************************************************************************)
C11_DiagnosticMatchesExit ==
    finalized >= 1 =>
        /\ Occurs(Ev("_d", "All run/task have completed, resuming bootstrap.")) <=> scTrueAt # 0
        /\ Occurs(Ev("_d", "Timeout, resuming bootstrap.")) <=> scTrueAt = 0

(***************************************************************************)
(* C12 as claimed: when the basefs-up hook fires, cond_set_oneshot has     *)
(* been called for the name of every hook point that fired before          *)
(* cond_init(): banner, rootfs-up, mount-post, and mount-error when it     *)
(* fired.                                                                  *)
(***************************************************************************)
FiredBeforeCondInit ==
    {h \in {HOOK_BANNER, HOOK_ROOTFS_UP, HOOK_MOUNT_ERROR, HOOK_MOUNT_POST} :
        /\ Occurs(plugin_run_hooks(h))
        /\ Precedes(plugin_run_hooks(h), Ev("cond_init", ""))}

C12_AllEarlyHooksReplayed ==
    Occurs(plugin_run_hooks(HOOK_BASEFS_UP)) =>
        \A h \in FiredBeforeCondInit :
            /\ Occurs(Ev("cond_set_oneshot", plugin_hook_str(h)))
            /\ plugin_hook_str(h) \in conds

(***************************************************************************)
(* C13 as claimed: the root remount (mount -n -o remount,rw /) is executed *)
(* if and only if the checks reported no failure and the root entry is not *)
(* configured 'ro'; when executed it runs after the last check pass and    *)
(* before the rootfs-up hook.                                              *)
(***************************************************************************)
FsckEv == Ev("fsck", "pass")

RemountOrdered ==
    /\ Count(RemountEv) <= 1
    /\ Precedes(FsckEv, RemountEv)
    /\ Precedes(RemountEv, plugin_run_hooks(HOOK_ROOTFS_UP))

C13_RemountIffCleanAndNotRo ==
    /\ Occurs(plugin_run_hooks(HOOK_ROOTFS_UP)) =>
        (Occurs(RemountEv) <=> (fsckerr = 0 /\ rootIn # "ro"))
    /\ RemountOrdered

(***************************************************************************)
(* C13 amended: the remount is executed if and only if the boot is not in  *)
(* rescue mode, fstab could be opened, "/" is listed in it with a type     *)
(* other than 'ro', and the checks reported no failure; when executed it   *)
(* runs once, after the last check pass and before the rootfs-up hook.     *)
(***************************************************************************)
C13_RemountIffListedCleanAndNotRo ==
    /\ Occurs(plugin_run_hooks(HOOK_ROOTFS_UP)) =>
        (Occurs(RemountEv) <=> (~rescue /\ rootIn = "rw" /\ fsckerr = 0))
    /\ ~Occurs(plugin_run_hooks(HOOK_ROOTFS_UP)) =>
        (Occurs(RemountEv) => (pc = "rootfs_up" /\ ~rescue /\ rootIn = "rw" /\ fsckerr = 0))
    /\ Occurs(RemountEv) => Len(passes) = PASS_LIMIT - 1
    /\ RemountOrdered

\* Root remounted read-write after nine clean passes, rootfs-up fired.
C13_Witness ==
    /\ Occurs(RemountEv)
    /\ Occurs(plugin_run_hooks(HOOK_ROOTFS_UP))
    /\ Len(passes) = PASS_LIMIT - 1
    /\ rootIn = "rw"

(***************************************************************************)
(* C14: the mount-error hook fires if and only if mount -na reports        *)
(* failure, and then after rootfs-up and before mount-post; the mount-post *)
(* hook fires exactly once in every boot, whether the mount succeeded or   *)
(* failed.                                                                 *)
(***************************************************************************)
MountFailed == Occurs(Ev("mount -na", "failed"))

\* Positions of main() up to and including the firing of mount-post.
BeforeMountPost == BeforeMount \cup {"mount_post"}

C14_MountErrorIffMountFails ==
    /\ Occurs(plugin_run_hooks(HOOK_MOUNT_ERROR)) <=> MountFailed
    /\ Count(plugin_run_hooks(HOOK_MOUNT_ERROR)) <= 1
    /\ Precedes(plugin_run_hooks(HOOK_ROOTFS_UP), plugin_run_hooks(HOOK_MOUNT_ERROR))
    /\ Precedes(plugin_run_hooks(HOOK_MOUNT_ERROR), plugin_run_hooks(HOOK_MOUNT_POST))
    /\ Occurs(plugin_run_hooks(HOOK_MOUNT_ERROR)) =>
        Occurs(plugin_run_hooks(HOOK_ROOTFS_UP))
    /\ Count(plugin_run_hooks(HOOK_MOUNT_POST)) =
        (IF pc \in BeforeMountPost THEN 0 ELSE 1)
    /\ Occurs(plugin_run_hooks(HOOK_MOUNT_POST)) => MountRan

\* A failed mount: mount-error, then mount-post, and the boot finished.
C14_Witness ==
    /\ MountFailed
    /\ Count(plugin_run_hooks(HOOK_MOUNT_ERROR)) = 1
    /\ Count(plugin_run_hooks(HOOK_MOUNT_POST)) = 1
    /\ finalized = 1

(***************************************************************************)
(* C15 as claimed: in every boot in which a check pass reports failure,    *)
(* and in every boot in which mount -na fails, the mount-error hook is     *)
(* fired (and the sequence goes on to basefs-up and the two work items).   *)
(***************************************************************************)
FsckFailed == \E i \in DOMAIN passes : passes[i][2] # 0

C15_FailuresFireMountError ==
    (pc \notin BeforeMountPost /\ (FsckFailed \/ MountFailed)) =>
        Occurs(plugin_run_hooks(HOOK_MOUNT_ERROR))

(***************************************************************************)
(* C15 amended: a failed mount -na fires the mount-error hook; a failed    *)
(* check pass fires no hook and only keeps root from being remounted; in   *)
(* both cases the sequence goes on to fire basefs-up and to submit the     *)
(* crank and final work items.                                             *)
(***************************************************************************)
Submitted ==
    /\ Occurs(plugin_run_hooks(HOOK_BASEFS_UP))
    /\ Occurs(Ev("schedule_work", "crank"))
    /\ Occurs(Ev("schedule_work", "final"))
    /\ gateAt >= 0

AdvisoryHooks ==
    /\ (pc \notin BeforeMountPost /\ MountFailed) =>
        Occurs(plugin_run_hooks(HOOK_MOUNT_ERROR))
    /\ (FsckFailed /\ ~MountFailed) => ~Occurs(plugin_run_hooks(HOOK_MOUNT_ERROR))
    /\ FsckFailed => ~Occurs(RemountEv)
    /\ pc = "reactor" => Submitted

C15_AdvisoryFailuresDoNotHalt ==
    /\ []AdvisoryHooks
    /\ (FsckFailed \/ MountFailed) ~> Submitted

\* A failed check with a clean mount: no hook fired, the items are submitted.
C15_Witness ==
    /\ FsckFailed
    /\ ~MountFailed
    /\ MountRan
    /\ ~Occurs(plugin_run_hooks(HOOK_MOUNT_ERROR))
    /\ Submitted

(***************************************************************************)
(* C16: crank_worker (sm_init, then sm_step) is submitted as an immediate  *)
(* item before the delayed final item, runs exactly once, never inside     *)
(* main() before the reactor starts, and has completed before the first    *)
(* invocation of final_worker steps the services.                          *)
(***************************************************************************)
C16_CrankOnceBeforeGate ==
    LET init == At(Ev("sm_init", ""))
        step == At(Ev("sm_step", ""))
        run == At(Ev("uev_run", ""))
        poll == At(PollEv)
        subc == At(Ev("schedule_work", "crank"))
        subf == At(Ev("schedule_work", "final"))
    IN
    /\ Cardinality(init) <= 1
    /\ Cardinality(step) = Cardinality(init)
    /\ Cardinality(subc) <= 1
    /\ \A i \in subc, j \in subf : i < j
    /\ subf # {} => subc # {}
    /\ \A i \in init : i + 1 \in step
    /\ \A i \in init : subc # {} /\ run # {} /\ (\A j \in subc \cup run : j < i)
    /\ \A i \in poll : step # {} /\ (\A j \in step : j < i)
    /\ \A it \in pending : it.wq = "crank" => it.due <= now
    /\ (pc = "reactor" /\ ~(\E it \in pending : it.wq = "crank")) => Cardinality(init) = 1

\* The crank has run once and the gate has polled after it.
C16_Witness ==
    /\ Count(Ev("sm_init", "")) = 1
    /\ Count(Ev("sm_step", "")) = 1
    /\ polls >= 2
    /\ finalized = 1

(***************************************************************************)
(* C17: finalize() performs, each once and in this order: optional         *)
(* run-parts, service_runlevel(cfglevel), svc_prune_bootstrap, services-up *)
(* hook, optional FINIT_RC_LOCAL, system-up hook, log_silent,              *)
(* tty_runlevel; the runlevel change happens once, after the last poll of  *)
(* the gate and never between two polls.                                   *)
(***************************************************************************)
IsFinalizeStep(e) == e # FinalizeEv /\ e # Ev("service_step_all", "finalize")

FinalizeSteps(rp, rcl, resc) ==
    (IF rp = "dir" /\ ~resc THEN <<Ev("run_parts", "runparts")>> ELSE <<>>) \o
    <<Ev("service_runlevel", "cfglevel"),
      Ev("svc_prune_bootstrap", ""),
      Ev("hook", "services-up")>> \o
    (IF rcl /\ ~resc THEN <<Ev("run_interactive", "FINIT_RC_LOCAL")>> ELSE <<>>) \o
    <<Ev("hook", "system-up"),
      Ev("log_silent", ""),
      Ev("tty_runlevel", "")>>

C17_FinalizeOrder ==
    LET level == At(Ev("service_runlevel", "cfglevel"))
        poll == At(PollEv)
    IN
    /\ Cardinality(level) = (IF finalized >= 1 THEN 1 ELSE 0)
    /\ \A i \in level : \A j \in poll : j < i
    /\ finalized >= 1 =>
        /\ SelectSeq(SinceFinalize, IsFinalizeStep) = FinalizeSteps(finIn[1], finIn[2], rescue)
        /\ Cardinality(poll) = polls
        /\ ~GatePending

\* finalize() ran all its steps, the two optional ones included, after polls.
C17_Witness ==
    /\ finalized = 1
    /\ ~rescue
    /\ finIn = <<"dir", TRUE>>
    /\ polls >= 2
    /\ Len(SelectSeq(SinceFinalize, IsFinalizeStep)) = 8

(***************************************************************************)
(* C18: the synchronous phases of main() run in one total order, none      *)
(* repeated: plugin_init, banner, sig_init, the filesystem phase,          *)
(* conf_init, cond_init, the two one-shot sets, sig_setup, basefs-up,      *)
(* conf_monitor, api_init, the submission of crank and of final, and the   *)
(* entry of the reactor.                                                   *)
(***************************************************************************)
PhaseOrder ==
    <<Ev("plugin_init", ""),
      Ev("hook", "banner"),
      Ev("sig_init", ""),
      Ev("fs_init", ""),
      Ev("conf_init", ""),
      Ev("cond_init", ""),
      Ev("cond_set_oneshot", "hook/banner"),
      Ev("cond_set_oneshot", "hook/rootfs-up"),
      Ev("sig_setup", ""),
      Ev("hook", "basefs-up"),
      Ev("conf_monitor", ""),
      Ev("api_init", ""),
      Ev("schedule_work", "crank"),
      Ev("schedule_work", "final"),
      Ev("uev_run", "")>>

Phases ==
    LET order == PhaseOrder
        names == {order[i] : i \in DOMAIN order}
        IsPhase(e) == e \in names
    IN SelectSeq(trace, IsPhase)

C18_PhasesInOrder ==
    LET ph == Phases
        order == PhaseOrder
    IN
    /\ Len(ph) <= Len(order)
    /\ ph = SubSeq(order, 1, Len(ph))
    /\ pc = "reactor" => ph = order

\* main() has entered the reactor after running every phase.
C18_Witness ==
    /\ pc = "reactor"
    /\ Len(Phases) = 15
    /\ polls = 0

(***************************************************************************)
(* C19: every invocation of final_worker either resubmits the final work   *)
(* item or calls finalize(), never both and never neither; at most one     *)
(* final item is pending at any time and none once finalize() has run.     *)
(***************************************************************************)
GateItems == {it \in pending : it.wq = "final"}

ResubmitsXorFinalizes ==
    polls' = polls + 1 =>
        \/ GatePending' /\ finalized' = finalized
        \/ ~GatePending' /\ finalized' = finalized + 1

C19_ResubmitXorFinalize ==
    /\ [][ResubmitsXorFinalizes]_vars
    /\ [](Cardinality(GateItems) <= 1)
    /\ [](finalized >= 1 => GateItems = {})
    /\ []((gateAt >= 0 /\ finalized = 0) => Cardinality(GateItems) = 1)

\* The gate resubmitted itself at least once and then finalized.
C19_Witness ==
    /\ polls >= 2
    /\ finalized = 1
    /\ GateItems = {}

(***************************************************************************)
(* C20: in rescue mode the filesystem phase runs no check pass and no      *)
(* remount of the root, and still fires rootfs-up, runs mount -na, fires   *)
(* mount-error when that fails, fires mount-post, and activates swap, in   *)
(* that order.                                                             *)
(***************************************************************************)
RescueFsPhase(failed) ==
    <<Ev("fs_init", ""),
      Ev("hook", "rootfs-up"),
      Ev("mount -na", IF failed THEN "failed" ELSE "ok")>> \o
    (IF failed THEN <<Ev("hook", "mount-error")>> ELSE <<>>) \o
    <<Ev("hook", "mount-post"),
      Ev("run", "swapon -ea")>>

\* Positions of main() inside the filesystem phase and before it.
BeforeSwaponDone == BeforeMountPost \cup {"swapon"}

C20_RescueSkipsChecks ==
    rescue =>
        LET start == At(Ev("fs_init", ""))
            done == RescueFsPhase(MountFailed)
        IN
        /\ passes = <<>>
        /\ rootIn = "unread"
        /\ At(FsckEv) = {}
        /\ At(RemountEv) = {}
        /\ At(Ev("print", "Cannot remount / as read-write, fsck failed before")) = {}
        /\ pc \notin BeforeSwaponDone =>
            /\ Cardinality(start) = 1
            /\ \A i \in start : SubSeq(trace, i, i + Len(done) - 1) = done

\* A rescue boot that went through the filesystem phase with a failed mount.
C20_Witness ==
    /\ rescue
    /\ pc = "conf_init"
    /\ MountFailed
    /\ Occurs(Ev("run", "swapon -ea"))

=============================================================================
